---- MODULE Spec2Model ----
(***************************************************************************)
(* A model of the ModalWindow class of src/modal-window.mjs: the static    *)
(* registry (#lastIndex, #layer, #store, #baseZindex), the per-instance    *)
(* fields and the two DOM nodes each instance owns, the children of        *)
(* <body>, the scroll listeners on window and the document-level keyup     *)
(* listener.                                                               *)
(***************************************************************************)
EXTENDS Integers, Sequences, FiniteSets, TLC

VARIABLES
    lastIndex,        \* static #lastIndex
    layer,            \* static #layer
    store,            \* static #store: a JS array, index -> instance (0 = empty slot)
    baseZindex,       \* static #baseZindex
    modals,           \* the ModalWindow instances ever constructed, by #index
    body,             \* document.body.children, in document order
    elems,            \* the page's own top-level elements: classes, inert, dataset.alreadyInert
    scrollListeners,  \* 'scroll' listeners registered on window (by owning instance)
    inertBefore,      \* history: elems' inert flags when the outermost dialog of the stack opened
    given,            \* history: the arguments each instance was constructed with
    call              \* history: the last call made by the application or the browser

vars == <<lastIndex, layer, store, baseZindex, modals, body, elems, scrollListeners,
          inertBefore, given, call>>

----------------------------------------------------------------------------
(* Bounds of the model *)

\* constructions in the stacking specification
MaxIndex == 3
\* constructions in the content-lifecycle specification
MaxContentIndex == 1
\* delegated listeners registered on one content node
MaxListeners == 1

----------------------------------------------------------------------------
(* JavaScript values that reach the constructor and update() *)

\* a JS number: the fraction num/den in lowest terms; 0/0 is NaN
Num(k) == [num |-> k, den |-> 1]
Halves(k) == [num |-> k, den |-> 2]
NaN == [num |-> 0, den |-> 0]

\* x + k for a JS number x and an integer k (NaN + k is NaN)
NumPlus(x, k) == [num |-> x.num + k * x.den, den |-> x.den]

\* x > y for JS numbers (false when either is NaN)
NumGreater(x, y) == x.den # 0 /\ y.den # 0 /\ x.num * y.den > y.num * x.den

\* Number.isInteger(x)
IsInteger(x) == x.den = 1

JNull == [t |-> "null", s |-> "", b |-> FALSE, o |-> {}, n |-> Num(0)]
JUndefined == [t |-> "undefined", s |-> "", b |-> FALSE, o |-> {}, n |-> Num(0)]
JStr(x) == [t |-> "string", s |-> x, b |-> FALSE, o |-> {}, n |-> Num(0)]
JBool(x) == [t |-> "boolean", s |-> "", b |-> x, o |-> {}, n |-> Num(0)]
\* an options object: a set of <<option name, boolean>> pairs
JObj(x) == [t |-> "object", s |-> "", b |-> FALSE, o |-> x, n |-> Num(0)]
JNum(x) == [t |-> "number", s |-> "", b |-> FALSE, o |-> {}, n |-> x]

\* typeof: null is an 'object'
TypeOf(v) == IF v.t = "null" THEN "object" ELSE v.t

mainClass == "modal-window"
maskClass == "modal-mask"
loadingClass == "loading"
inertExemptClass == "wh-inert-exempt"

DefaultBaseZindex == 100

----------------------------------------------------------------------------
(* The static registry *)

StoreLength(st) == Cardinality(DOMAIN st)

\* store[i], undefined (0) for an empty slot or an index beyond length
StoreAt(st, i) == IF i \in DOMAIN st THEN st[i] ELSE 0

\* store[i] = value: a JS array grows to hold index i, leaving empty slots
StoreSet(st, i, v) ==
    [k \in 0..(IF i + 1 > StoreLength(st) THEN i ELSE StoreLength(st) - 1) |->
        IF k = i THEN v ELSE StoreAt(st, k)]

\* delete store[i]: the slot is emptied, length is unchanged
StoreDelete(st, i) == [k \in DOMAIN st |-> IF k = i THEN 0 ELSE st[k]]

\* the instances present in the registry
Registered(st) == {st[k] : k \in DOMAIN st} \ {0}

\* getMostRecent with the scan started one slot too low
RECURSIVE ScanStoreMutant(_, _, _, _)
ScanStoreMutant(st, ms, i, pendingOnly) ==
    IF i > 1
    THEN IF StoreAt(st, i - 1) # 0 /\ (~pendingOnly \/ ms[StoreAt(st, i - 1)].isPending)
         THEN StoreAt(st, i - 1)
         ELSE ScanStoreMutant(st, ms, i - 1, pendingOnly)
    ELSE 0

\* the while loop of getMostRecent, from i downwards; 0 stands for null
RECURSIVE ScanStore(_, _, _, _)
ScanStore(st, ms, i, pendingOnly) ==
    IF i > 0
    THEN IF StoreAt(st, i) # 0 /\ (~pendingOnly \/ ms[StoreAt(st, i)].isPending)
         THEN StoreAt(st, i)
         ELSE ScanStore(st, ms, i - 1, pendingOnly)
    ELSE 0

GetMostRecentIn(st, ms, li, pendingOnly) == ScanStore(st, ms, li, pendingOnly)

GetMostRecent(pendingOnly) == GetMostRecentIn(store, modals, lastIndex, pendingOnly)

----------------------------------------------------------------------------
(* Markup: what innerHTML = htmlString leaves in the content node *)

\* the first h1..h6 of a markup string and its id attribute (null when it has none)
FirstHeading(s) ==
    CASE s = "<h2>T</h2>" -> [present |-> TRUE, id |-> JNull]
      [] s = "<h2 id='t'>T</h2>" -> [present |-> TRUE, id |-> JStr("t")]
      [] OTHER -> [present |-> FALSE, id |-> JNull]

\* node.innerHTML = s: the parsed children, with the id attribute of their first heading
SetInnerHTML(s) == [src |-> s, headingId |-> FirstHeading(s).id]

HeadingIdAttr(index) == "modal-" \o ToString(index) \o "-heading"

\* static #setLabelledByAttr(modal)
SetLabelledByAttr(modal) ==
    LET firstHeading == FirstHeading(modal.dialogNode.innerHTML.src)
        node == modal.dialogNode
        headingIdAttr == IF node.innerHTML.headingId.t = "null"
                         THEN JStr(HeadingIdAttr(modal.index))
                         ELSE node.innerHTML.headingId
    IN  IF ~firstHeading.present
        THEN modal
        ELSE [modal EXCEPT !.dialogNode =
                 [node EXCEPT !.innerHTML = [@ EXCEPT !.headingId = headingIdAttr],
                              !.ariaLabelledby = headingIdAttr]]

----------------------------------------------------------------------------
(* The constructor *)

DefaultConfig ==
    [isAlertDialog |-> FALSE, trapFocus |-> TRUE, lockWindowScroll |-> TRUE,
     closeOnMaskClick |-> TRUE, labelByFirstHeading |-> TRUE]

\* the options object after the argument normalisation of lines 163-172
NormalizedOptions(htmlContent, options) ==
    IF TypeOf(options) = "boolean" THEN {<<"isAlertDialog", options.b>>}
    ELSE IF options.t = "null" /\ TypeOf(htmlContent) = "object" THEN htmlContent.o
    ELSE IF TypeOf(options) # "object" THEN {}
    ELSE options.o

\* htmlContent after the argument normalisation of lines 163-172
NormalizedContent(htmlContent, options) ==
    IF TypeOf(options) = "boolean" THEN htmlContent
    ELSE IF options.t = "null" /\ TypeOf(htmlContent) = "object" THEN JNull
    ELSE htmlContent

\* { ...defaults, ...options }
MergeConfig(overrides) ==
    [n \in DOMAIN DefaultConfig |->
        IF \E p \in overrides : p[1] = n
        THEN (CHOOSE p \in overrides : p[1] = n)[2]
        ELSE DefaultConfig[n]]

IsNonEmptyString(v) == TypeOf(v) = "string" /\ v.s # ""

\* the z-index written into the content node's style
ContentZindex(base, lyr) == NumPlus(base, lyr)

\* the z-index written into the mask node's style
MaskZindex(base, lyr) == NumPlus(base, lyr - 1)

\* the instance and its two nodes as built by lines 174-251, before insertion
NewModal(id, htmlClass, htmlContent, options, index, lyr) ==
    LET config == MergeConfig(NormalizedOptions(htmlContent, options))
        content == NormalizedContent(htmlContent, options)
        isString == TypeOf(content) = "string"
        dialogNode ==
            [id |-> IF isString /\ IsNonEmptyString(id) THEN id ELSE JNull,
             classes |-> {mainClass, "modal-" \o ToString(index)}
                         \cup (IF isString /\ IsNonEmptyString(htmlClass) THEN {htmlClass.s} ELSE {})
                         \cup (IF isString THEN {} ELSE {loadingClass}),
             innerHTML |-> IF isString THEN SetInnerHTML(content.s) ELSE SetInnerHTML(""),
             ariaLabelledby |-> JNull,
             role |-> IF config.isAlertDialog THEN "alertdialog" ELSE "dialog",
             zIndex |-> ContentZindex(baseZindex, lyr),
             inert |-> FALSE,
             listeners |-> <<>>]
        maskNode ==
            [classes |-> {maskClass, "modal-" \o ToString(index)},
             zIndex |-> MaskZindex(baseZindex, lyr),
             tabindex |-> config.closeOnMaskClick,
             clickRemoves |-> config.closeOnMaskClick,
             inert |-> FALSE]
        modal ==
            [index |-> index,
             config |-> config,
             isPending |-> ~isString,
             deferredId |-> IF ~isString /\ IsNonEmptyString(id) THEN id ELSE JUndefined,
             deferredClass |-> IF ~isString /\ IsNonEmptyString(htmlClass) THEN htmlClass ELSE JUndefined,
             windowScrollHandler |-> config.lockWindowScroll,
             dialogNode |-> dialogNode,
             maskNode |-> maskNode]
    IN  IF isString /\ config.labelByFirstHeading THEN SetLabelledByAttr(modal) ELSE modal

----------------------------------------------------------------------------
(* The document *)

PageNode(name) == [kind |-> "page", name |-> name, idx |-> 0]
DialogNode(i) == [kind |-> "dialog", name |-> "", idx |-> i]
MaskNode(i) == [kind |-> "mask", name |-> "", idx |-> i]

IsModalElement(n) == n.kind \in {"dialog", "mask"}

\* document.querySelectorAll('.modal-window, .modal-mask')
ExistingModalElements(b) == SelectSeq(b, IsModalElement)

IsModalWindow(n) == n.kind = "dialog"

\* document.querySelectorAll('.modal-window')
ExistingModalWindows(b) == SelectSeq(b, IsModalWindow)

\* the position in b of the last dialog or mask node
LastModalPosition(b) ==
    CHOOSE p \in 1..Len(b) :
        /\ IsModalElement(b[p])
        /\ \A q \in (p + 1)..Len(b) : ~IsModalElement(b[q])

\* the new nodes placed after the first dialog or mask node instead of the last
InsertAfterLastMutant(b, nodes) ==
    LET p == CHOOSE q \in 1..Len(b) :
                 IsModalElement(b[q]) /\ \A r \in 1..(q - 1) : ~IsModalElement(b[r])
    IN  SubSeq(b, 1, p) \o nodes \o SubSeq(b, p + 1, Len(b))

\* Array.from(existingModalElements).at(-1).after(dialogNode, maskNode)
InsertAfterLast(b, nodes) ==
    LET p == LastModalPosition(b)
    IN  SubSeq(b, 1, p) \o nodes \o SubSeq(b, p + 1, Len(b))

\* node.remove() for both nodes of instance i
DetachNodes(b, i) ==
    LET Keep(n) == ~(IsModalElement(n) /\ n.idx = i)
    IN  SelectSeq(b, Keep)

IsExempt(e) == inertExemptClass \in e.classes

\* the forEach of lines 257-265 without the exemption test
TrapBodyChildrenMutant(es) ==
    [n \in DOMAIN es |->
        IF es[n].inert
        THEN [es[n] EXCEPT !.alreadyInert = TRUE]
        ELSE [es[n] EXCEPT !.inert = TRUE]]

\* the forEach over document.body.children of lines 257-265
TrapBodyChildren(es) ==
    [n \in DOMAIN es |->
        IF ~IsExempt(es[n])
        THEN IF es[n].inert
             THEN [es[n] EXCEPT !.alreadyInert = TRUE]
             ELSE [es[n] EXCEPT !.inert = TRUE]
        ELSE es[n]]

\* the forEach over document.body.children of lines 431-439
ReleaseBodyChildren(es) ==
    [n \in DOMAIN es |->
        IF ~IsExempt(es[n])
        THEN IF ~es[n].alreadyInert
             THEN [es[n] EXCEPT !.inert = FALSE]
             ELSE [es[n] EXCEPT !.alreadyInert = FALSE]
        ELSE es[n]]

\* node.inert = v on both nodes of instance i (nothing when i is null)
SetModalInert(ms, i, v) ==
    IF i = 0 THEN ms
    ELSE [ms EXCEPT ![i].dialogNode.inert = v, ![i].maskNode.inert = v]

----------------------------------------------------------------------------
(* Initial state: the module has been loaded into a page with four top-level *)
(* elements and no dialog has been constructed                               *)

PageElements == <<"main", "aside", "toast", "notice">>

InitialElems ==
    [n \in {PageElements[k] : k \in 1..Len(PageElements)} |->
        [classes |-> IF n \in {"toast", "notice"} THEN {inertExemptClass} ELSE {},
         inert |-> n \in {"aside", "notice"},
         alreadyInert |-> FALSE]]

InertFlags(es) == [n \in DOMAIN es |-> es[n].inert]

NoCall == [op |-> "none", i |-> 0, arg |-> JNull]

Init ==
    /\ lastIndex = 0
    /\ layer = 0
    /\ store = [k \in {} |-> 0]
    /\ baseZindex = Num(DefaultBaseZindex)
    /\ modals = [k \in {} |-> 0]
    /\ body = [k \in 1..Len(PageElements) |-> PageNode(PageElements[k])]
    /\ elems = InitialElems
    /\ scrollListeners = {}
    /\ inertBefore = InertFlags(InitialElems)
    /\ given = [k \in {} |-> 0]
    /\ call = NoCall

\* the part of the state that remove() reads and writes
Current ==
    [layer |-> layer, store |-> store, modals |-> modals, body |-> body,
     elems |-> elems, scrollListeners |-> scrollListeners]

Becomes(S) ==
    /\ layer' = S.layer
    /\ store' = S.store
    /\ modals' = S.modals
    /\ body' = S.body
    /\ elems' = S.elems
    /\ scrollListeners' = S.scrollListeners

----------------------------------------------------------------------------
(* new ModalWindow(id, htmlClass, htmlContent, options) *)

\* the constructor with the layer increment left out
LayerAfterConstructMutant(st, lyr) == lyr

\* lines 188-190
LayerAfterConstruct(st, lyr) == IF StoreLength(st) > 0 THEN lyr + 1 ELSE lyr

Construct(id, htmlClass, htmlContent, options) ==
    LET index == lastIndex + 1
        newLayer == LayerAfterConstruct(store, layer)
        modal == NewModal(id, htmlClass, htmlContent, options, index, newLayer)
        outermost == Len(ExistingModalElements(body)) = 0
        mostRecentModal == GetMostRecent(FALSE)
        previous == IF outermost THEN modals ELSE SetModalInert(modals, mostRecentModal, TRUE)
    IN  /\ lastIndex' = index
        /\ layer' = newLayer
        /\ elems' = IF outermost /\ modal.config.trapFocus THEN TrapBodyChildren(elems) ELSE elems
        /\ body' = IF outermost
                   THEN body \o <<DialogNode(index), MaskNode(index)>>
                   ELSE InsertAfterLast(body, <<DialogNode(index), MaskNode(index)>>)
        /\ modals' = [i \in 1..index |-> IF i = index THEN modal ELSE previous[i]]
        /\ store' = StoreSet(store, index, index)
        /\ scrollListeners' = IF modal.config.lockWindowScroll
                              THEN scrollListeners \cup {index}
                              ELSE scrollListeners
        /\ inertBefore' = IF Registered(store) = {} THEN InertFlags(elems) ELSE inertBefore
        /\ UNCHANGED baseZindex

----------------------------------------------------------------------------
(* update(htmlContent) *)

\* update() that resolves the dialog without applying what was deferred
UpdatedModalDeferredKept(modal, htmlContent) ==
    LET node == modal.dialogNode
    IN  IF TypeOf(htmlContent) = "string"
        THEN [modal EXCEPT
                !.isPending = FALSE,
                !.dialogNode = [node EXCEPT !.classes = @ \ {loadingClass},
                                            !.innerHTML = SetInnerHTML(htmlContent.s)]]
        ELSE IF ~modal.isPending
        THEN [modal EXCEPT
                !.isPending = TRUE,
                !.dialogNode = [node EXCEPT !.innerHTML = SetInnerHTML(""),
                                            !.classes = @ \cup {loadingClass},
                                            !.ariaLabelledby = JNull]]
        ELSE [modal EXCEPT !.dialogNode = [node EXCEPT !.innerHTML = SetInnerHTML("")]]

\* update() that clears the content but never goes back to pending
UpdatedModalNeverPending(modal, htmlContent) ==
    LET node == modal.dialogNode
    IN  IF TypeOf(htmlContent) = "string"
        THEN [modal EXCEPT
                !.isPending = FALSE,
                !.dialogNode = [node EXCEPT !.classes = @ \ {loadingClass},
                                            !.innerHTML = SetInnerHTML(htmlContent.s)]]
        ELSE [modal EXCEPT !.dialogNode = [node EXCEPT !.innerHTML = SetInnerHTML("")]]

\* the state of the instance after update(htmlContent), lines 328-362
UpdatedModal(modal, htmlContent) ==
    LET node == modal.dialogNode
    IN  IF TypeOf(htmlContent) = "string"
        THEN LET resolved ==
                   [modal EXCEPT
                      !.isPending = FALSE,
                      !.deferredId = IF TypeOf(@) = "string" THEN JUndefined ELSE @,
                      !.deferredClass = IF TypeOf(@) = "string" THEN JUndefined ELSE @,
                      !.dialogNode =
                         [node EXCEPT
                            !.id = IF TypeOf(modal.deferredId) = "string"
                                   THEN modal.deferredId ELSE @,
                            !.classes = (@ \ {loadingClass})
                                        \cup (IF TypeOf(modal.deferredClass) = "string"
                                              THEN {modal.deferredClass.s} ELSE {}),
                            !.innerHTML = SetInnerHTML(htmlContent.s)]]
             IN  IF modal.config.labelByFirstHeading THEN SetLabelledByAttr(resolved) ELSE resolved
        ELSE IF ~modal.isPending
        THEN [modal EXCEPT
                !.isPending = TRUE,
                !.dialogNode =
                   [node EXCEPT
                      !.innerHTML = SetInnerHTML(""),
                      !.classes = @ \cup {loadingClass},
                      !.ariaLabelledby = IF modal.config.labelByFirstHeading THEN JNull ELSE @]]
        ELSE [modal EXCEPT !.dialogNode = [node EXCEPT !.innerHTML = SetInnerHTML("")]]

Update(i, htmlContent) ==
    /\ StoreAt(store, i) = i
    /\ modals' = [modals EXCEPT ![i] = UpdatedModal(modals[i], htmlContent)]
    /\ UNCHANGED <<lastIndex, layer, store, baseZindex, body, elems, scrollListeners,
                   inertBefore>>

----------------------------------------------------------------------------
(* remove() *)

\* remove() with the layer decrement left out
LayerAfterRemoveMutant(lyr) == lyr

\* lines 419-421
LayerAfterRemove(lyr) == IF lyr > 0 THEN lyr - 1 ELSE lyr

\* remove() leaving the scroll listener registered
ScrollListenersAfterRemoveMutant(listeners, modal, i) == listeners

\* lines 423-425
ScrollListenersAfterRemove(listeners, modal, i) ==
    IF modal.windowScrollHandler THEN listeners \ {i} ELSE listeners

\* the state S after instance i has run remove(); li is #lastIndex
RemoveFrom(S, i, li) ==
    LET modal == S.modals[i]
        newBody == DetachNodes(S.body, i)
        newStore == StoreDelete(S.store, i)
        noneLeft == Len(ExistingModalWindows(newBody)) = 0
        mostRecentModal == GetMostRecentIn(newStore, S.modals, li, FALSE)
    IN  [body |-> newBody,
         store |-> newStore,
         layer |-> LayerAfterRemove(S.layer),
         scrollListeners |-> ScrollListenersAfterRemove(S.scrollListeners, modal, i),
         elems |-> IF modal.config.trapFocus /\ noneLeft
                   THEN ReleaseBodyChildren(S.elems)
                   ELSE S.elems,
         modals |-> IF modal.config.trapFocus /\ ~noneLeft
                    THEN SetModalInert(S.modals, mostRecentModal, FALSE)
                    ELSE S.modals]

\* the application calls remove() on an open dialog
Remove(i) ==
    /\ StoreAt(store, i) = i
    /\ Becomes(RemoveFrom(Current, i, lastIndex))
    /\ UNCHANGED <<lastIndex, baseZindex, inertBefore>>

\* the application calls remove() on an instance it has removed before
RemoveAgain(i) ==
    /\ i \in DOMAIN modals
    /\ StoreAt(store, i) = 0
    /\ Becomes(RemoveFrom(Current, i, lastIndex))
    /\ UNCHANGED <<lastIndex, baseZindex, inertBefore>>

\* a click on the mask of an open dialog (listener of lines 282-284)
MaskClick(i) ==
    /\ StoreAt(store, i) = i
    /\ modals[i].maskNode.clickRemoves
    /\ Becomes(RemoveFrom(Current, i, lastIndex))
    /\ UNCHANGED <<lastIndex, baseZindex, inertBefore>>

\* the keyup listener removing every open dialog instead of the most recent one
RECURSIVE RemoveAllFrom(_, _)
RemoveAllFrom(S, li) ==
    LET mostRecentModal == GetMostRecentIn(S.store, S.modals, li, FALSE)
    IN  IF mostRecentModal = 0 THEN S ELSE RemoveAllFrom(RemoveFrom(S, mostRecentModal, li), li)

KeyUpMutant(key) ==
    /\ IF key # "Escape" /\ key # "Esc"
       THEN Becomes(Current)
       ELSE Becomes(RemoveAllFrom(Current, lastIndex))
    /\ UNCHANGED <<lastIndex, baseZindex, inertBefore>>

\* the document-level keyup listener of lines 453-463
KeyUp(key) ==
    /\ IF key # "Escape" /\ key # "Esc"
       THEN Becomes(Current)
       ELSE LET mostRecentModal == GetMostRecent(FALSE)
            IN  IF mostRecentModal # 0
                THEN Becomes(RemoveFrom(Current, mostRecentModal, lastIndex))
                ELSE Becomes(Current)
    /\ UNCHANGED <<lastIndex, baseZindex, inertBefore>>

----------------------------------------------------------------------------
(* static setBaseZindex(zIndexValue) *)

\* the test of line 54: the call ends with the TypeError of line 55
SetBaseZindexThrows(zIndexValue) == TypeOf(zIndexValue) # "number"

SetBaseZindex(zIndexValue) ==
    /\ baseZindex' = IF SetBaseZindexThrows(zIndexValue) THEN baseZindex ELSE zIndexValue.n
    /\ UNCHANGED <<lastIndex, layer, store, modals, body, elems, scrollListeners,
                   inertBefore>>

----------------------------------------------------------------------------
(* Delegated listeners on the content node *)

\* the elements of a markup string an event can start at; "dialog" is the content node
Targets(src) ==
    CASE src = "<p><a class='close'>x</a></p>" -> {"a", "p", "dialog"}
      [] src = "<h2>T</h2>" -> {"h2", "dialog"}
      [] src = "<h2 id='t'>T</h2>" -> {"h2", "dialog"}
      [] OTHER -> {"dialog"}

\* target and its parentNode chain, up to the content node
Ancestry(target) ==
    CASE target = "a" -> <<"a", "p", "dialog">>
      [] target = "p" -> <<"p", "dialog">>
      [] target = "h2" -> <<"h2", "dialog">>
      [] OTHER -> <<"dialog">>

\* element.matches(selector)
Matches(element, selector) ==
    \/ selector = element
    \/ selector = ".close" /\ element = "a"
    \/ selector = "." \o mainClass /\ element = "dialog"

\* static #findDelegatedTarget: the do-while of lines 126-132 ("" stands for null)
RECURSIVE FindDelegatedTargetFrom(_, _, _)
FindDelegatedTargetFrom(chain, k, selector) ==
    IF Matches(chain[k], selector)
    THEN chain[k]
    ELSE IF k + 1 <= Len(chain) /\ chain[k + 1] # "dialog"
         THEN FindDelegatedTargetFrom(chain, k + 1, selector)
         ELSE ""

FindDelegatedTarget(target, selector) == FindDelegatedTargetFrom(Ancestry(target), 1, selector)

\* addDelegatedDialogRemover(eventNameOrSelector, selector)
AddDelegatedDialogRemover(i, eventNameOrSelector, selector) ==
    LET listener ==
            IF selector.t = "undefined"
            THEN [eventName |-> "click", selector |-> eventNameOrSelector.s, remover |-> TRUE]
            ELSE [eventName |-> eventNameOrSelector.s, selector |-> selector.s, remover |-> TRUE]
    IN  /\ StoreAt(store, i) = i
        /\ modals' = [modals EXCEPT ![i].dialogNode.listeners = Append(@, listener)]
        /\ UNCHANGED <<lastIndex, layer, store, baseZindex, body, elems, scrollListeners,
                       inertBefore>>

\* addDelegatedEventListener(eventName, selector, handler), the handler being the application's
AddDelegatedEventListener(i, eventName, selector) ==
    LET listener == [eventName |-> eventName, selector |-> selector, remover |-> FALSE]
    IN  /\ StoreAt(store, i) = i
        /\ modals' = [modals EXCEPT ![i].dialogNode.listeners = Append(@, listener)]
        /\ UNCHANGED <<lastIndex, layer, store, baseZindex, body, elems, scrollListeners,
                       inertBefore>>

\* the listeners of the content node run in registration order on one event
RECURSIVE RunListeners(_, _, _, _, _, _, _)
RunListeners(S, i, li, listeners, k, eventName, target) ==
    IF k > Len(listeners)
    THEN S
    ELSE LET l == listeners[k]
             hit == /\ l.eventName = eventName
                    /\ l.remover
                    /\ FindDelegatedTarget(target, l.selector) # ""
         IN  RunListeners(IF hit THEN RemoveFrom(S, i, li) ELSE S,
                          i, li, listeners, k + 1, eventName, target)

\* an event of type eventName that starts at target inside the content node of dialog i
DispatchEvent(i, eventName, target) ==
    /\ StoreAt(store, i) = i
    /\ target \in Targets(modals[i].dialogNode.innerHTML.src)
    /\ Becomes(RunListeners(Current, i, lastIndex, modals[i].dialogNode.listeners, 1,
                            eventName, target))
    /\ UNCHANGED <<lastIndex, baseZindex, inertBefore>>

----------------------------------------------------------------------------
(* The stacking specification: dialogs of every trapFocus / lockWindowScroll / *)
(* closeOnMaskClick mix, pending or resolved, opened and closed in any order   *)

StackContents == {JNull, JStr("<p><a class='close'>x</a></p>")}

StackOptions ==
    {JNull,
     JObj({<<"trapFocus", FALSE>>}),
     JObj({<<"lockWindowScroll", FALSE>>, <<"closeOnMaskClick", FALSE>>})}

Keys == {"Escape", "Esc", "Enter"}

Untracked == UNCHANGED <<given, call>>

Next ==
    \/ \E c \in StackContents, o \in StackOptions :
          lastIndex < MaxIndex /\ Construct(JNull, JNull, c, o) /\ Untracked
    \/ \E i \in 1..lastIndex, c \in StackContents : Update(i, c) /\ Untracked
    \/ \E i \in 1..lastIndex : Remove(i) /\ Untracked
    \/ \E i \in 1..lastIndex : MaskClick(i) /\ Untracked
    \/ \E k \in Keys : KeyUp(k) /\ Untracked

Spec == Init /\ [][Next]_vars

----------------------------------------------------------------------------
(* The content-lifecycle specification: every form of the constructor's      *)
(* arguments, update() with and without markup, delegated listeners; the     *)
(* last call is recorded                                                     *)

Markups == {"", "<p><a class='close'>x</a></p>", "<h2>T</h2>", "<h2 id='t'>T</h2>"}

NoLabelling == JObj({<<"labelByFirstHeading", FALSE>>})

\* <<id, htmlClass, htmlContent, options>>: each branch of the argument normalisation,
\* with and without markup, id and class
ContentArgs ==
    {<<JNull, JNull, JNull, JNull>>,
     <<JStr("dlg"), JStr("extra"), JNull, JNull>>,
     <<JStr(""), JStr(""), NoLabelling, JNull>>,
     <<JStr("dlg"), JStr(loadingClass), JNull, JBool(TRUE)>>,
     <<JNull, JStr("extra"), NoLabelling, JBool(FALSE)>>,
     <<JStr("dlg"), JStr("extra"), JStr("<h2>T</h2>"), JNull>>,
     <<JNull, JNull, JStr("<p><a class='close'>x</a></p>"), JStr("opts")>>,
     <<JStr("dlg"), JNull, JStr("<h2 id='t'>T</h2>"), NoLabelling>>}

UpdateContents == {JNull} \cup {JStr(m) : m \in Markups}

EventNames == {"click", "keydown"}

Selectors == {".close", "p"}

\* the history of a call: what was called, and for a construction its arguments
Called(op, i, arg) ==
    /\ call' = [op |-> op, i |-> i, arg |-> arg]
    /\ UNCHANGED given

Constructed(id, htmlClass, htmlContent) ==
    /\ call' = [op |-> "construct", i |-> lastIndex + 1, arg |-> JNull]
    /\ given' = [i \in 1..(lastIndex + 1) |->
                    IF i = lastIndex + 1
                    THEN [id |-> id, htmlClass |-> htmlClass, htmlContent |-> htmlContent]
                    ELSE given[i]]

NextContent ==
    \/ \E a \in ContentArgs :
          /\ lastIndex < MaxContentIndex
          /\ Construct(a[1], a[2], a[3], a[4])
          /\ Constructed(a[1], a[2], a[3])
    \/ \E i \in 1..lastIndex, c \in UpdateContents :
          Update(i, c) /\ Called("update", i, c)
    \/ \E i \in 1..lastIndex :
          Remove(i) /\ Called("remove", i, JNull)
    \/ \E i \in 1..lastIndex :
          MaskClick(i) /\ Called("maskclick", i, JNull)
    \/ \E k \in Keys :
          KeyUp(k) /\ Called("keyup", 0, JStr(k))

SpecContent == Init /\ [][NextContent]_vars

----------------------------------------------------------------------------
(* The delegation specification: dialogs with delegated listeners on their   *)
(* content nodes, and events dispatched inside them                          *)

MaxDelegatedIndex == 2

DelegatedOptions == {JNull, JObj({<<"trapFocus", FALSE>>})}

NextDelegated ==
    \/ \E c \in StackContents, o \in DelegatedOptions :
          lastIndex < MaxDelegatedIndex /\ Construct(JNull, JNull, c, o) /\ Untracked
    \/ \E i \in 1..lastIndex : Remove(i) /\ Untracked
    \/ \E k \in Keys : KeyUp(k) /\ Untracked
    \/ \E i \in 1..lastIndex, sel \in Selectors :
          /\ Len(modals[i].dialogNode.listeners) < MaxListeners
          /\ AddDelegatedDialogRemover(i, JStr(sel), JUndefined)
          /\ Untracked
    \/ \E i \in 1..lastIndex, sel \in Selectors :
          /\ Len(modals[i].dialogNode.listeners) < MaxListeners
          /\ AddDelegatedDialogRemover(i, JStr("keydown"), JStr(sel))
          /\ Untracked
    \/ \E i \in 1..lastIndex :
          /\ Len(modals[i].dialogNode.listeners) < MaxListeners
          /\ AddDelegatedEventListener(i, "click", ".close")
          /\ Untracked
    \/ \E i \in 1..lastIndex, ev \in EventNames, tg \in {"a", "p", "dialog"} :
          DispatchEvent(i, ev, tg) /\ Untracked

SpecDelegated == Init /\ [][NextDelegated]_vars

----------------------------------------------------------------------------
(* The base z-index specification: setBaseZindex() called with values of     *)
(* every type between constructions and removals; the last call is recorded, *)
(* a call that threw under the name of its error                             *)

MaxZindexIndex == 2

BaseValues ==
    {JNull, JUndefined, JStr("5"), JBool(TRUE), JObj({}),
     JNum(Num(5)), JNum(Num(200)), JNum(Halves(3)), JNum(NaN)}

NextZindex ==
    \/ \E c \in StackContents :
          /\ lastIndex < MaxZindexIndex
          /\ Construct(JNull, JNull, c, JNull)
          /\ Called("construct", lastIndex + 1, JNull)
    \/ \E i \in 1..lastIndex :
          Remove(i) /\ Called("remove", i, JNull)
    \/ \E v \in BaseValues :
          /\ SetBaseZindex(v)
          /\ Called(IF SetBaseZindexThrows(v) THEN "TypeError" ELSE "setBaseZindex", 0, v)

SpecZindex == Init /\ [][NextZindex]_vars

----------------------------------------------------------------------------
(* The repeated-removal specification: the application keeps its references  *)
(* to removed instances and calls remove() on them again                     *)

MaxRemovedIndex == 2

NextRemoved ==
    \/ \E c \in StackContents, o \in StackOptions :
          lastIndex < MaxRemovedIndex /\ Construct(JNull, JNull, c, o) /\ Untracked
    \/ \E i \in 1..lastIndex : Remove(i) /\ Untracked
    \/ \E i \in 1..lastIndex : RemoveAgain(i) /\ Untracked
    \/ \E k \in Keys : KeyUp(k) /\ Untracked

SpecRemoved == Init /\ [][NextRemoved]_vars

----------------------------------------------------------------------------
(* Vocabulary of the claims *)

Max(S) == CHOOSE x \in S : \A y \in S : y <= x

\* the dialogs currently present in the registry
Open == Registered(store)

\* the dialogs whose content node is attached to the document
AttachedDialogs(b) == {b[k].idx : k \in {j \in 1..Len(b) : b[j].kind = "dialog"}}

\* the dialogs whose mask node is attached to the document
AttachedMasks(b) == {b[k].idx : k \in {j \in 1..Len(b) : b[j].kind = "mask"}}

NonExempt == {n \in DOMAIN InitialElems : ~IsExempt(InitialElems[n])}

Exempt == {n \in DOMAIN InitialElems : IsExempt(InitialElems[n])}

----------------------------------------------------------------------------
(* C1: in every reachable state layer equals the number of registered dialogs *)
(* minus one when a dialog is registered, and 0 when none is.                 *)
C1_LayerMatchesRegistry ==
    IF Open = {} THEN layer = 0 ELSE layer = Cardinality(Open) - 1

(* C2: when B, the most recent dialog, is removed while A, the dialog it was  *)
(* opened over, is still open, then afterwards A's content and mask nodes are *)
(* not inert, the registry has no entry at B's index and getMostRecent()      *)
(* returns A, whatever the trapFocus settings of A and B.                     *)
C2_RemovalRestoresPrevious ==
    [][\A a, b \in Open :
          (/\ a # b
           /\ b = Max(Open)
           /\ a = Max(Open \ {b})
           /\ AttachedDialogs(body') = AttachedDialogs(body) \ {b})
          => /\ ~modals'[a].dialogNode.inert
             /\ ~modals'[a].maskNode.inert
             /\ StoreAt(store', b) = 0
             /\ GetMostRecentIn(store', modals', lastIndex', FALSE) = a]_vars

(* C3: after N >= 1 constructions from the initial state with no removal and  *)
(* the base z-index unchanged, layer = N - 1 and each dialog's content        *)
(* z-index is strictly greater than that of the dialog constructed before it. *)
C3_StackingWithoutRemoval ==
    (lastIndex >= 1 /\ Open = 1..lastIndex /\ baseZindex = Num(DefaultBaseZindex))
    => /\ layer = lastIndex - 1
       /\ \A i \in 2..lastIndex :
             NumGreater(modals[i].dialogNode.zIndex, modals[i - 1].dialogNode.zIndex)

C3_Witness ==
    /\ lastIndex >= 3
    /\ Open = 1..lastIndex
    /\ layer = lastIndex - 1
    /\ NumGreater(modals[3].dialogNode.zIndex, modals[2].dialogNode.zIndex)

(* C4: when exactly one dialog is open and it is removed, afterwards          *)
(* getMostRecent() returns null and layer is 0.                               *)
C4_RemoveOnlyDialog ==
    [][(/\ Cardinality(Open) = 1
        /\ AttachedDialogs(body) = Open
        /\ AttachedDialogs(body') = {})
       => /\ GetMostRecentIn(store', modals', lastIndex', FALSE) = 0
          /\ Open' = {}
          /\ layer' = 0]_vars

C4_Witness ==
    /\ lastIndex >= 2
    /\ Open = {}
    /\ AttachedDialogs(body) = {}
    /\ layer = 0

(* C5: when the last open dialog is removed and it has trapFocus enabled,     *)
(* every non-exempt top-level element that was inert before the outermost     *)
(* dialog of the stack was opened is still inert and its already-inert marker *)
(* is cleared.                                                                *)
C5_AlreadyInertKept ==
    [][\A i \in Open :
          (/\ Open = {i}
           /\ modals[i].config.trapFocus
           /\ AttachedDialogs(body) = {i}
           /\ AttachedDialogs(body') = {})
          => \A n \in NonExempt :
                inertBefore[n] => (elems'[n].inert /\ ~elems'[n].alreadyInert)]_vars

(* C6: an Escape or Esc key release removes exactly the open dialog with the  *)
(* highest index, leaving every other open dialog registered and attached;    *)
(* with no dialog open it changes nothing.                                    *)
C6_EscapeRemovesMostRecent ==
    [][(\E k \in {"Escape", "Esc"} : KeyUp(k))
       => IF Open = {}
          THEN UNCHANGED <<lastIndex, layer, store, baseZindex, modals, body, elems,
                           scrollListeners>>
          ELSE /\ Open' = Open \ {Max(Open)}
               /\ AttachedDialogs(body') = AttachedDialogs(body) \ {Max(Open)}
               /\ AttachedMasks(body') = AttachedMasks(body) \ {Max(Open)}
               /\ Open' \subseteq AttachedDialogs(body') \cap AttachedMasks(body')]_vars

C6_Witness ==
    /\ lastIndex >= 3
    /\ Open = 1..(lastIndex - 1)
    /\ AttachedDialogs(body) = Open
    /\ AttachedMasks(body) = Open

(* C7: getMostRecent() returns the registered dialog with the highest index,  *)
(* getMostRecent(true) the registered pending dialog with the highest index,  *)
(* each null when there is none; a removed dialog is never returned.          *)
C7_GetMostRecent ==
    LET pending == {i \in Open : modals[i].isPending}
    IN  /\ GetMostRecent(FALSE) = (IF Open = {} THEN 0 ELSE Max(Open))
        /\ GetMostRecent(TRUE) = (IF pending = {} THEN 0 ELSE Max(pending))
        /\ GetMostRecent(FALSE) \in Open \cup {0}
        /\ GetMostRecent(TRUE) \in Open \cup {0}

C7_Witness ==
    /\ lastIndex >= 3
    /\ lastIndex \notin Open
    /\ GetMostRecent(FALSE) = 2
    /\ GetMostRecent(TRUE) = 1

(* C10: an element carrying the inert-exemption class never has its inert     *)
(* state or its already-inert marker changed.                                 *)
C10_ExemptUntouched ==
    \A n \in Exempt : elems[n] = InitialElems[n]

C10_Witness ==
    /\ Cardinality(Open) >= 2
    /\ \E i \in Open : modals[i].config.trapFocus
    /\ \A n \in NonExempt : elems[n].inert
    /\ ~elems["toast"].inert

----------------------------------------------------------------------------
(* The content lifecycle, under SpecContent *)

\* the dialog the last call was made on was constructed without string content
ConstructedPending(i) == TypeOf(given[i].htmlContent) # "string"

AfterConstructPending ==
    call.op = "construct" /\ ConstructedPending(call.i)

AfterUpdateWithString ==
    call.op = "update" /\ TypeOf(call.arg) = "string" /\ ConstructedPending(call.i)

\* the id given at construction is on the content node of dialog i
IdApplied(i) ==
    IsNonEmptyString(given[i].id) => modals[i].dialogNode.id = given[i].id

\* the extra class given at construction is on the content node of dialog i
ClassApplied(i) ==
    IsNonEmptyString(given[i].htmlClass) => given[i].htmlClass.s \in modals[i].dialogNode.classes

\* nothing is deferred any more
DeferredCleared(i) ==
    modals[i].deferredId = JUndefined /\ modals[i].deferredClass = JUndefined

(* C8, as stated: a dialog constructed without string content is pending and  *)
(* carries the loading class; after a later update(s) with a string s it is   *)
(* not pending, its content node contains exactly s, the loading class is     *)
(* gone, and the id and extra class given at construction are applied and no  *)
(* longer deferred.                                                           *)
C8_PendingThenResolved ==
    /\ AfterConstructPending
       => /\ modals[call.i].isPending
          /\ loadingClass \in modals[call.i].dialogNode.classes
    /\ AfterUpdateWithString
       => /\ ~modals[call.i].isPending
          /\ modals[call.i].dialogNode.innerHTML = SetInnerHTML(call.arg.s)
          /\ loadingClass \notin modals[call.i].dialogNode.classes
          /\ IdApplied(call.i)
          /\ ClassApplied(call.i)
          /\ DeferredCleared(call.i)

(* C8, amended: as C8, except that the content node contains the markup of s  *)
(* whose first heading, when it has no id and labelByFirstHeading is enabled, *)
(* has received the id modal-<index>-heading, and that the loading class is   *)
(* gone and the extra class applied provided the extra class given at         *)
(* construction is not the loading class itself.                              *)
C8_PendingThenResolvedAmended ==
    /\ AfterConstructPending
       => /\ modals[call.i].isPending
          /\ loadingClass \in modals[call.i].dialogNode.classes
    /\ AfterUpdateWithString
       => LET m == modals[call.i]
              heading == FirstHeading(call.arg.s)
          IN  /\ ~m.isPending
              /\ m.dialogNode.innerHTML.src = call.arg.s
              /\ m.dialogNode.innerHTML.headingId =
                    (IF heading.present /\ heading.id = JNull /\ m.config.labelByFirstHeading
                     THEN JStr(HeadingIdAttr(call.i))
                     ELSE heading.id)
              /\ given[call.i].htmlClass # JStr(loadingClass)
                    => /\ loadingClass \notin m.dialogNode.classes
                       /\ ClassApplied(call.i)
              /\ IdApplied(call.i)
              /\ DeferredCleared(call.i)

C8_Witness ==
    /\ AfterUpdateWithString
    /\ given[call.i].id = JStr("dlg")
    /\ given[call.i].htmlClass = JStr("extra")
    /\ modals[call.i].dialogNode.id = JStr("dlg")
    /\ "extra" \in modals[call.i].dialogNode.classes
    /\ call.arg = JStr("<h2>T</h2>")

(* C9: update() with no argument on a non-pending dialog makes it pending,    *)
(* with the loading class, empty content and no aria-labelledby attribute; on *)
(* an already pending dialog it leaves the whole state unchanged.             *)
C9_UpdateWithoutContent ==
    [][(call'.op = "update" /\ TypeOf(call'.arg) # "string")
       => LET i == call'.i
          IN  /\ IF ~modals[i].isPending
                 THEN /\ modals'[i].isPending
                      /\ loadingClass \in modals'[i].dialogNode.classes
                      /\ modals'[i].dialogNode.innerHTML = SetInnerHTML("")
                      /\ modals'[i].dialogNode.ariaLabelledby = JNull
                 ELSE modals'[i] = modals[i]
              /\ \A j \in DOMAIN modals \ {i} : modals'[j] = modals[j]
              /\ UNCHANGED <<lastIndex, layer, store, baseZindex, body, elems,
                             scrollListeners>>]_vars

C9_Witness ==
    /\ call.op = "update"
    /\ call.arg = JNull
    /\ TypeOf(given[call.i].htmlContent) = "string"
    /\ modals[call.i].isPending
    /\ loadingClass \in modals[call.i].dialogNode.classes
    /\ modals[call.i].dialogNode.ariaLabelledby = JNull

----------------------------------------------------------------------------
(* C11: setBaseZindex(v) fails with the invalid-argument error for every v    *)
(* that is not an integer (a non-number, a fraction, NaN) and then leaves the *)
(* base z-index unchanged; for an integer v it returns, the base z-index is v *)
(* and is the one the next construction uses, and the z-index of every        *)
(* content and mask node already built is unchanged.                          *)
IsIntegerValue(v) == TypeOf(v) = "number" /\ IsInteger(v.n)

NodeZindexes(ms) == [i \in DOMAIN ms |-> <<ms[i].dialogNode.zIndex, ms[i].maskNode.zIndex>>]

C11_SetBaseZindex ==
    [][/\ call'.op \in {"setBaseZindex", "TypeError"}
          => /\ NodeZindexes(modals') = NodeZindexes(modals)
             /\ IF IsIntegerValue(call'.arg)
                THEN call'.op = "setBaseZindex" /\ baseZindex' = call'.arg.n
                ELSE call'.op = "TypeError" /\ baseZindex' = baseZindex
       /\ call'.op = "construct"
          => modals'[lastIndex'].dialogNode.zIndex = NumPlus(baseZindex, layer')]_vars

\* the part of C11 the code keeps: non-numbers are rejected, numbers are stored
C11_NumbersAccepted ==
    [][call'.op \in {"setBaseZindex", "TypeError"}
          => /\ NodeZindexes(modals') = NodeZindexes(modals)
             /\ IF TypeOf(call'.arg) = "number"
                THEN call'.op = "setBaseZindex" /\ baseZindex' = call'.arg.n
                ELSE call'.op = "TypeError" /\ baseZindex' = baseZindex]_vars

----------------------------------------------------------------------------
(* C12: remove() is idempotent: a remove() on an instance that has been       *)
(* removed before leaves layer, the registry, the inert state of every dialog *)
(* and of every top-level element of the page, and the scroll listeners on    *)
(* window unchanged, whether or not other dialogs are open.                   *)
ManagerState(S) ==
    [layer |-> S.layer,
     registry |-> Registered(S.store),
     dialogsInert |-> [i \in Registered(S.store) |->
                         <<S.modals[i].dialogNode.inert, S.modals[i].maskNode.inert>>],
     siblingsInert |-> InertFlags(S.elems),
     scrollListeners |-> S.scrollListeners]

C12_RemoveIdempotent ==
    [][\A i \in DOMAIN modals :
          (StoreAt(store, i) = 0 /\ Becomes(RemoveFrom(Current, i, lastIndex)))
          => ManagerState(RemoveFrom(Current, i, lastIndex)) = ManagerState(Current)]_vars

----------------------------------------------------------------------------
(* C13: in every reachable state the scroll listeners registered on window    *)
(* are exactly those of the open dialogs constructed with lockWindowScroll    *)
(* enabled: one is registered at construction only when the option is         *)
(* enabled, and none of a removed dialog remains.                             *)
C13_ScrollListeners ==
    scrollListeners = {i \in Open : modals[i].config.lockWindowScroll}

C13_Witness ==
    /\ \E i \in DOMAIN modals : i \notin Open /\ modals[i].config.lockWindowScroll
    /\ \E i \in Open : modals[i].config.lockWindowScroll /\ i \in scrollListeners
    /\ \E i \in Open : ~modals[i].config.lockWindowScroll /\ i \notin scrollListeners

----------------------------------------------------------------------------
(* C14: when an open instance runs remove(), a listener of the 'remove' event *)
(* dispatched on its content node observes the state before any teardown: the *)
(* content and mask nodes still attached to the document, the instance still  *)
(* in the registry (getMostRecent() returns it when no younger dialog is      *)
(* open) and layer not yet decremented.                                       *)

\* the event dispatched only after the teardown of lines 414-421
RemoveNotificationMutant(S, i, li) ==
    LET T == RemoveFrom(S, i, li)
    IN  [dialogAttached |-> i \in AttachedDialogs(T.body),
         maskAttached |-> i \in AttachedMasks(T.body),
         registered |-> StoreAt(T.store, i) = i,
         mostRecent |-> GetMostRecentIn(T.store, T.modals, li, FALSE),
         layer |-> T.layer]

\* what a listener of the event dispatched by line 412 observes when instance i
\* runs remove() in state S: the statement precedes every other one of remove()
RemoveNotification(S, i, li) ==
    [dialogAttached |-> i \in AttachedDialogs(S.body),
     maskAttached |-> i \in AttachedMasks(S.body),
     registered |-> StoreAt(S.store, i) = i,
     mostRecent |-> GetMostRecentIn(S.store, S.modals, li, FALSE),
     layer |-> S.layer]

NotifiedBeforeTeardown(i) ==
    LET seen == RemoveNotification(Current, i, lastIndex)
        after == RemoveFrom(Current, i, lastIndex)
    IN  /\ seen.dialogAttached
        /\ seen.maskAttached
        /\ seen.registered
        /\ (\A j \in Registered(store) : j <= i) => seen.mostRecent = i
        /\ seen.layer = layer
        /\ seen.layer >= after.layer

C14_NotifiedOnEveryRemove ==
    [][\A i \in DOMAIN modals :
          (Becomes(RemoveFrom(Current, i, lastIndex)) /\ UNCHANGED lastIndex)
          => NotifiedBeforeTeardown(i)]_vars

----------------------------------------------------------------------------
(* C15: a dialog constructed while dialog or mask nodes are in the document   *)
(* has its content node placed directly after the last of them, followed by   *)
(* its mask node; in every state the dialog and mask nodes in the document    *)
(* are those of the open dialogs, in creation (index) order, each content     *)
(* node directly followed by its own mask node.                               *)
PositionOf(b, n) == CHOOSE p \in 1..Len(b) : b[p] = n

OrderedPairs(b, open) ==
    /\ AttachedDialogs(b) = open
    /\ AttachedMasks(b) = open
    /\ \A i \in open :
          /\ PositionOf(b, DialogNode(i)) < Len(b)
          /\ b[PositionOf(b, DialogNode(i)) + 1] = MaskNode(i)
    /\ \A i, j \in open :
          i < j => PositionOf(b, DialogNode(i)) < PositionOf(b, DialogNode(j))
    /\ Len(ExistingModalElements(b)) = 2 * Cardinality(open)

C15_DocumentOrder ==
    [][/\ OrderedPairs(body', Registered(store'))
       /\ (lastIndex' = lastIndex + 1 /\ Len(ExistingModalElements(body)) > 0)
          => /\ body'[LastModalPosition(body) + 1] = DialogNode(lastIndex')
             /\ body'[LastModalPosition(body) + 2] = MaskNode(lastIndex')
             /\ SubSeq(body', 1, LastModalPosition(body)) = SubSeq(body, 1, LastModalPosition(body))]_vars

\* the second of three dialogs has been removed, the third was placed after the others
C15_Witness ==
    /\ lastIndex = 3
    /\ Open = {1, 3}
    /\ OrderedPairs(body, Open)
    /\ body[Len(body)] = MaskNode(3)
    /\ body[Len(body) - 2] = MaskNode(1)

----------------------------------------------------------------------------
(* C16: with the base z-index never set, every construction gives the new     *)
(* dialog a content z-index strictly greater than the content z-index of      *)
(* every dialog open at that moment, and a mask z-index not lower than the    *)
(* content z-index of any of them, whatever dialogs were removed before.      *)
C16_NewDialogOnTop ==
    [][lastIndex' = lastIndex + 1
       => \A j \in Open :
             /\ NumGreater(modals'[lastIndex'].dialogNode.zIndex, modals[j].dialogNode.zIndex)
             /\ ~NumGreater(modals[j].dialogNode.zIndex, modals'[lastIndex'].maskNode.zIndex)]_vars

----------------------------------------------------------------------------
(* C17: in every state with an open dialog, the most recent open dialog has   *)
(* a non-inert content node and a non-inert mask node, every other open       *)
(* dialog has both nodes inert, and the mask of each open dialog is inert     *)
(* exactly when its content node is.                                          *)
C17_OnlyMostRecentActive ==
    Open # {}
    => /\ ~modals[Max(Open)].dialogNode.inert
       /\ ~modals[Max(Open)].maskNode.inert
       /\ \A j \in Open \ {Max(Open)} :
             modals[j].dialogNode.inert /\ modals[j].maskNode.inert
       /\ \A j \in Open : modals[j].maskNode.inert = modals[j].dialogNode.inert

----------------------------------------------------------------------------
(* C18: in every state with no dialog open, no non-exempt top-level element   *)
(* of the page that was non-inert before the dialogs were opened is inert.    *)
C18_PageReleased ==
    Open = {}
    => \A n \in NonExempt : ~inertBefore[n] => ~elems[n].inert

----------------------------------------------------------------------------
(* C19: in every state in which the most recent open dialog was constructed   *)
(* with trapFocus enabled, every non-exempt top-level element of the page is  *)
(* inert.                                                                     *)
C19_FocusTrapped ==
    (Open # {} /\ modals[Max(Open)].config.trapFocus)
    => \A n \in NonExempt : elems[n].inert

----------------------------------------------------------------------------
(* C20: for a dialog with labelByFirstHeading enabled, in every state the     *)
(* content node has an aria-labelledby attribute only if its current content  *)
(* has a heading whose id is the attribute's value.                           *)
C20_LabelRefersToCurrentHeading ==
    \A i \in DOMAIN modals :
        (modals[i].config.labelByFirstHeading /\ modals[i].dialogNode.ariaLabelledby # JNull)
        => /\ FirstHeading(modals[i].dialogNode.innerHTML.src).present
           /\ modals[i].dialogNode.innerHTML.headingId = modals[i].dialogNode.ariaLabelledby

====
